---- MODULE Spec2Model ----
(***************************************************************************)
(* Treasury Escrow (src/src/lib.rs): the "last-to-act wins" escrow state   *)
(* machine.  Each instruction handler of the program is one action; a      *)
(* handler that returns an error aborts the whole transaction, so the      *)
(* action commits the handler's writes only when every step succeeded.     *)
(*                                                                         *)
(* u64 values (fees, lamports) keep their 64-bit width.  TLC's integers    *)
(* are 32 bits wide, so a u64 is a little-endian tuple of 15-bit limbs and *)
(* the arithmetic the handlers use (widening to u128, checked_mul,         *)
(* checked_div, the narrowing "as u64", checked_sub, the system program's  *)
(* checked lamport arithmetic) is computed limb by limb, exactly.          *)
(***************************************************************************)
EXTENDS Integers, Sequences, FiniteSets, TLC

\* ------------------------------------------------------------------------
\* Fixed-width unsigned arithmetic
\* ------------------------------------------------------------------------

U64_BITS == 64

U128_BITS == 128

LimbBase == 2^15

LimbsFor(bits) == (bits + 14) \div 15

U64Limbs == LimbsFor(U64_BITS)

U128Limbs == LimbsFor(U128_BITS)

\* 2^(bits in the top limb of a value of the given width)
TopModulus(bits) == 2^(bits - 15 * (LimbsFor(bits) - 1))

\* limb i of a number n < 2^31 that TLC can hold directly
Digit(n, i) ==
    IF i = 1 THEN n % LimbBase
    ELSE IF i = 2 THEN (n \div LimbBase) % LimbBase
    ELSE IF i = 3 THEN n \div (LimbBase * LimbBase)
    ELSE 0

\* the u64 with value n (n < 2^31)
U64(n) == [i \in 1..U64Limbs |-> Digit(n, i)]

\* zero-extension to len limbs ("as u128" with len = U128Limbs)
Extend(a, len) == [i \in 1..len |-> IF i <= Len(a) THEN a[i] ELSE 0]

IsZero(a) == \A i \in 1..Len(a) : a[i] = 0

\* a < b, a and b of the same length
Lt(a, b) == \E i \in 1..Len(a) : a[i] < b[i] /\ \A j \in (i+1)..Len(a) : a[j] = b[j]

Le(a, b) == a = b \/ Lt(a, b)

\* does the value w fit in the given width?
Fits(w, bits) ==
    /\ \A i \in 1..Len(w) : i > LimbsFor(bits) => w[i] = 0
    /\ Len(w) >= LimbsFor(bits) => w[LimbsFor(bits)] < TopModulus(bits)

RECURSIVE AddFrom(_, _, _, _)
AddFrom(a, b, i, carry) ==
    IF i > Len(a) THEN <<carry>>
    ELSE <<(a[i] + b[i] + carry) % LimbBase>>
         \o AddFrom(a, b, i + 1, (a[i] + b[i] + carry) \div LimbBase)

\* exact a + b (a, b of the same length), one limb longer
AddExact(a, b) == AddFrom(a, b, 1, 0)

RECURSIVE SubFrom(_, _, _, _)
SubFrom(a, b, i, borrow) ==
    IF i > Len(a) THEN <<>>
    ELSE <<(a[i] - b[i] - borrow + LimbBase) % LimbBase>>
         \o SubFrom(a, b, i + 1, IF a[i] - b[i] - borrow < 0 THEN 1 ELSE 0)

\* a - b for a >= b (a, b of the same length)
SubExact(a, b) == SubFrom(a, b, 1, 0)

RECURSIVE MulFrom(_, _, _, _)
MulFrom(a, k, i, carry) ==
    IF i > Len(a) THEN <<carry % LimbBase, carry \div LimbBase>>
    ELSE <<(a[i] * k + carry) % LimbBase>>
         \o MulFrom(a, k, i + 1, (a[i] * k + carry) \div LimbBase)

\* exact a * k for a small factor k (k < 2^16), two limbs longer
MulExact(a, k) == MulFrom(a, k, 1, 0)

RECURSIVE DivFrom(_, _, _, _)
DivFrom(a, d, i, rem) ==
    IF i = 0 THEN <<>>
    ELSE DivFrom(a, d, i - 1, (rem * LimbBase + a[i]) % d)
         \o <<(rem * LimbBase + a[i]) \div d>>

\* floor(a / d) for a small divisor d (0 < d < 2^16), by long division from the top limb
DivExact(a, d) == DivFrom(a, d, Len(a), 0)

\* the narrowing cast "as u64": the low 64 bits
as_u64(w) ==
    [i \in 1..U64Limbs |-> IF i = U64Limbs THEN w[i] % TopModulus(U64_BITS) ELSE w[i]]

\* the widening cast "as u128"
as_u128(a) == Extend(a, U128Limbs)

\* u128::checked_mul by a small factor: <<TRUE, product>> or <<FALSE, _>> on overflow
checked_mul(a, k) ==
    LET p == MulExact(a, k)
    IN  <<Fits(p, U128_BITS), Extend(p, U128Limbs)>>

\* u128::checked_div by a small divisor: None only for a zero divisor
checked_div(a, d) == IF d = 0 THEN <<FALSE, a>> ELSE <<TRUE, DivExact(a, d)>>

\* u64::checked_sub: None when b > a
checked_sub(a, b) == IF Lt(a, b) THEN <<FALSE, a>> ELSE <<TRUE, SubExact(a, b)>>

\* u64::checked_add
checked_add(a, b) ==
    LET s == AddExact(a, b)
    IN  <<Fits(s, U64_BITS), Extend(s, U64Limbs)>>

\* ------------------------------------------------------------------------
\* Program constants, identities, bounds of the model
\* ------------------------------------------------------------------------

\* submit_message: const START_AFTER: u64 = 10
START_AFTER == 10

\* submit_message: const EXTEND_SECONDS: i64 = 3600
EXTEND_SECONDS == 3600

\* the fee escalation factor 10078 / 10000
FEE_MULTIPLIER == 10078

\* the divisor of the split and of the escalation (basis points)
BPS_DENOMINATOR == 10000

\* set_marketing_params: require!(bps <= 2500)
MAX_MARKETING_BPS == 2500

\* Escrow::LEN
Escrow_LEN == 32 + 8 + 8 + 8 + 32 + 2 + 8 + 32 + 1 + 8 + 1 + 1

\* Pubkey::default()
DEFAULT == "default"

\* the vault PDA, seeds [b"escrow", b"vault"]
ESCROW_VAULT == "escrow_vault"

\* the escrow PDA, seeds [b"escrow"]
ESCROW == "escrow"

\* the keys that sign transactions
Signers == {"admin", "alice", "bob"}

\* the payers of submit_message
Payers == {"alice", "bob"}

\* the accounts a caller can name as marketing wallet or as winner
Wallets == {"mkt", ESCROW_VAULT, DEFAULT}

\* the accounts that hold lamports
Accounts == Signers \cup {"mkt", ESCROW_VAULT, ESCROW, DEFAULT}

\* Rent::minimum_balance(space) with the ledger's default rent parameters
\* (128 bytes of account overhead, 3480 lamports per byte-year, 2 years)
Rent_minimum_balance(space) == U64((128 + space) * 3480 * 2)

\* bound: submissions accepted in one run
MaxMessages == 11

\* bound: the clock of one run
MaxNow == 3602

\* the steps the clock advances by: the extension window, and one second more
ClockSteps == {EXTEND_SECONDS, EXTEND_SECONDS + 1}

\* the arguments tried for initialize, <<base_fee, fee_cap, marketing_bps, marketing_wallet>>:
\* valid ones, and ones with base_fee > fee_cap, marketing_bps > 2500 and no wallet
InitializeArgs ==
    {<<U64(1000), U64(1010), 1000, "mkt">>,
     <<U64(2000), U64(1010), 3000, DEFAULT>>}

\* the arguments tried for set_fee_params: base_fee = 0, base_fee > fee_cap, valid
FeeParamArgs == {<<U64(0), U64(1010)>>, <<U64(1500), U64(1200)>>, <<U64(1010), U64(1010)>>}

\* the arguments tried for set_marketing_params
MarketingParamArgs == {<<ESCROW_VAULT, 2500>>, <<"mkt", 2501>>}

\* the lamports each account holds before initialize: alice can pay every
\* submission of a run, bob a single one (after it he fails the InsufficientFee check)
InitialLamports ==
    [a \in Accounts |->
        CASE a = "admin" -> U64(10000000)
          [] a = "alice" -> U64(20000)
          [] a = "bob"   -> U64(1500)
          [] OTHER       -> U64(0)]

\* u64::MAX
U64_MAX ==
    [i \in 1..U64Limbs |-> IF i = U64Limbs THEN TopModulus(U64_BITS) - 1 ELSE LimbBase - 1]

\* 2^63 - 1, the largest fee the split is specified for
FEE_RANGE_MAX ==
    [i \in 1..U64Limbs |->
        IF i = U64Limbs THEN TopModulus(U64_BITS) \div 2 - 1 ELSE LimbBase - 1]

\* the arguments tried for initialize over the whole width of a u64,
\* <<base_fee, fee_cap, marketing_bps, marketing_wallet>>: the largest fee, the
\* largest fee of the split's range, a fee whose split and escalation round down,
\* and no fee at all
WideInitializeArgs ==
    {<<U64_MAX, U64_MAX, 2500, "mkt">>,
     <<FEE_RANGE_MAX, U64_MAX, 2500, "mkt">>,
     <<U64(9999), U64(10100), 1, "mkt">>,
     <<U64(0), U64(0), 0, DEFAULT>>}

\* the lamports each account holds before initialize on a ledger where alice can
\* pay a fee of any size
WideLamports ==
    [a \in Accounts |->
        CASE a = "admin" -> U64(10000000)
          [] a = "alice" -> U64_MAX
          [] a = "bob"   -> U64(1500)
          [] OTHER       -> U64(0)]

\* ------------------------------------------------------------------------
\* State
\* ------------------------------------------------------------------------

VARIABLES
    initialized,        \* the escrow account exists (Anchor `init`)
    authority,          \* Escrow.authority
    base_fee,           \* Escrow.base_fee
    fee_cap,            \* Escrow.fee_cap
    current_fee,        \* Escrow.current_fee
    marketing_wallet,   \* Escrow.marketing_wallet
    marketing_bps,      \* Escrow.marketing_bps
    messages_count,     \* Escrow.messages_count
    last_sender,        \* Escrow.last_sender
    timer_active,       \* Escrow.timer_active
    deadline,           \* Escrow.deadline
    ended,              \* Escrow.ended
    lamports,           \* the ledger: lamports of every account
    now,                \* Clock::get()?.unix_timestamp
    prize_claimed,      \* the PrizeClaimed events emitted, with the instruction that emitted each
    prize_fee_total,    \* history: sum of prize_fee over the accepted submissions
    vault_inflow_total, \* history: lamports the accepted submissions moved into the vault
    message_submitted_at \* history: the timestamp of the last MessageSubmitted event

escrow_fields ==
    <<authority, base_fee, fee_cap, current_fee, marketing_wallet, marketing_bps,
      messages_count, last_sender, timer_active, deadline, ended>>

history == <<prize_claimed, prize_fee_total, vault_inflow_total, message_submitted_at>>

vars == <<initialized, escrow_fields, lamports, now, history>>

\* ------------------------------------------------------------------------
\* The ledger collaborator
\* ------------------------------------------------------------------------

\* system_instruction::transfer: <<TRUE, balances after>> or <<FALSE, _>> when the
\* source holds less than amount or the destination's balance would overflow
system_transfer(bal, from, to, amount) ==
    IF Lt(bal[from], amount) THEN <<FALSE, bal>>
    ELSE IF from = to THEN <<TRUE, bal>>
    ELSE LET credit == checked_add(bal[to], amount)
         IN  IF ~credit[1] THEN <<FALSE, bal>>
             ELSE <<TRUE, [bal EXCEPT ![from] = SubExact(bal[from], amount),
                                      ![to] = credit[2]]>>

\* system_instruction::create_account: fails when the new account is already in use
system_create_account(bal, from, to, amount) ==
    IF ~IsZero(bal[to]) THEN <<FALSE, bal>> ELSE system_transfer(bal, from, to, amount)

\* ------------------------------------------------------------------------
\* initialize
\* ------------------------------------------------------------------------

\* The outcome of initialize: Anchor's `init` creates the escrow account paid by the
\* authority, then the handler creates the vault with the rent-exempt minimum of an
\* account without data.  No argument is validated.
initialize_outcome(signer, wallet) ==
    LET created == system_create_account(lamports, signer, ESCROW,
                                         Rent_minimum_balance(8 + Escrow_LEN))
        rent_lamports == Rent_minimum_balance(0)
        vault == system_create_account(created[2], signer, ESCROW_VAULT, rent_lamports)
    IN  IF initialized THEN [err |-> "AccountAlreadyInUse"] ELSE
        [err |-> IF ~created[1] \/ ~vault[1] THEN "LedgerError" ELSE "Ok",
         lamports |-> vault[2]]

initialize(signer, wallet, new_base_fee, new_fee_cap, new_marketing_bps) ==
    LET out == initialize_outcome(signer, wallet)
    IN  /\ out.err = "Ok"
        /\ initialized' = TRUE
        /\ lamports' = out.lamports
        /\ authority' = signer
        /\ base_fee' = new_base_fee
        /\ fee_cap' = new_fee_cap
        /\ current_fee' = new_base_fee
        /\ marketing_wallet' = wallet
        /\ marketing_bps' = new_marketing_bps
        /\ messages_count' = 0
        /\ last_sender' = DEFAULT
        /\ timer_active' = FALSE
        /\ deadline' = 0
        /\ ended' = FALSE
        /\ UNCHANGED <<now, history>>

\* ------------------------------------------------------------------------
\* submit_message
\* ------------------------------------------------------------------------

\* marketing_fee_of multiplying in 64 bits, without the u128 intermediate (the fault
\* C14 would catch)
marketing_fee_of_narrow(fee, bps) ==
    <<TRUE, DivExact(as_u64(MulExact(fee, bps)), BPS_DENOMINATOR)>>

\* marketing_fee = (current_fee as u128).checked_mul(bps).unwrap().checked_div(10_000).unwrap() as u64
\* <<no panic, marketing_fee>>
marketing_fee_of(fee, bps) ==
    LET mul == checked_mul(as_u128(fee), bps)
        div == checked_div(mul[2], BPS_DENOMINATOR)
    IN  <<mul[1] /\ div[1], as_u64(div[2])>>

\* prize_fee = current_fee.checked_sub(marketing_fee).unwrap(): <<no panic, prize_fee>>
prize_fee_of(fee, marketing_fee) == checked_sub(fee, marketing_fee)

\* next_fee = (current_fee as u128).checked_mul(10078).unwrap().checked_div(10000).unwrap() as u64
\* <<no panic, next_fee>>
next_fee_of(fee) ==
    LET mul == checked_mul(as_u128(fee), FEE_MULTIPLIER)
        div == checked_div(mul[2], BPS_DENOMINATOR)
    IN  <<mul[1] /\ div[1], as_u64(div[2])>>

\* escrow.current_fee = if next_fee > escrow.fee_cap { escrow.fee_cap } else { next_fee }
capped_fee(next_fee, cap) == IF Lt(cap, next_fee) THEN cap ELSE next_fee

\* timer_rules arming one submission late, count > START_AFTER (the fault C9 would catch)
timer_rules_late_start(count, active, dl, t) ==
    IF ~active /\ count > START_AFTER THEN <<TRUE, t + EXTEND_SECONDS, TRUE, FALSE>>
    ELSE IF active /\ t <= dl THEN <<active, t + EXTEND_SECONDS, FALSE, TRUE>>
    ELSE <<active, dl, FALSE, FALSE>>

\* timer_rules arming the timer but never extending it (the fault C19 would catch)
timer_rules_no_extend(count, active, dl, t) ==
    IF ~active /\ count >= START_AFTER THEN <<TRUE, t + EXTEND_SECONDS, TRUE, FALSE>>
    ELSE <<active, dl, FALSE, FALSE>>

\* timer_rules arming one submission early, at START_AFTER - 1 (the fault C21 would catch)
timer_rules_early_start(count, active, dl, t) ==
    IF ~active /\ count >= START_AFTER - 1 THEN <<TRUE, t + EXTEND_SECONDS, TRUE, FALSE>>
    ELSE IF active /\ t <= dl THEN <<active, t + EXTEND_SECONDS, FALSE, TRUE>>
    ELSE <<active, dl, FALSE, FALSE>>

\* the timer rules, applied to the count after the increment.  The clock stays
\* below MaxNow and the count below MaxMessages, far from where the checked_add of
\* the i64 deadline or of the u64 messages_count would panic.
\* <<timer_active, deadline, timer_started, timer_extended>>
timer_rules(count, active, dl, t) ==
    IF ~active /\ count >= START_AFTER THEN <<TRUE, t + EXTEND_SECONDS, TRUE, FALSE>>
    ELSE IF active /\ t <= dl THEN <<active, t + EXTEND_SECONDS, FALSE, TRUE>>
    ELSE <<active, dl, FALSE, FALSE>>

\* submit_message_checks without the check of the timer (the fault C8 would catch)
submit_message_checks_no_timer(payer, wallet) ==
    IF ~initialized THEN "AccountNotInitialized"
    ELSE IF wallet # marketing_wallet THEN "Unauthorized"
    ELSE IF ended THEN "GameEnded"
    ELSE IF ~Le(current_fee, lamports[payer]) THEN "InsufficientFee"
    ELSE "Ok"

\* the checks of submit_message that come before any effect, in the order the
\* program makes them: the account constraint on marketing_wallet, then the handler
submit_message_checks(payer, wallet) ==
    IF ~initialized THEN "AccountNotInitialized"
    ELSE IF wallet # marketing_wallet THEN "Unauthorized"
    ELSE IF ended THEN "GameEnded"
    ELSE IF timer_active /\ ~(now <= deadline) THEN "TimerExpired"
    ELSE IF ~Le(current_fee, lamports[payer]) THEN "InsufficientFee"
    ELSE "Ok"

\* fee_transfers moving the whole current_fee into the vault instead of the
\* prize_fee (the fault C7 would catch)
fee_transfers_whole_fee(payer, wallet, prize_fee, marketing_fee) ==
    LET to_vault == IF ~IsZero(prize_fee)
                    THEN system_transfer(lamports, payer, ESCROW_VAULT, current_fee)
                    ELSE <<TRUE, lamports>>
    IN  <<to_vault[1], to_vault[2], FALSE>>

\* steps 5 and 6 of submit_message: payer -> escrow_vault (skipped for a zero
\* prize_fee), then payer -> marketing_wallet (skipped for a zero marketing_fee or
\* the default wallet): <<both transfers succeeded, balances after, marketing sent>>
fee_transfers(payer, wallet, prize_fee, marketing_fee) ==
    LET to_vault == IF ~IsZero(prize_fee)
                    THEN system_transfer(lamports, payer, ESCROW_VAULT, prize_fee)
                    ELSE <<TRUE, lamports>>
        sends_marketing == ~IsZero(marketing_fee) /\ marketing_wallet # DEFAULT
        to_marketing == IF ~to_vault[1] THEN to_vault
                        ELSE IF sends_marketing
                        THEN system_transfer(to_vault[2], payer, wallet, marketing_fee)
                        ELSE <<TRUE, to_vault[2]>>
    IN  <<to_marketing[1], to_marketing[2], sends_marketing>>

\* The outcome of submit_message(payer, marketing_wallet account): the error it
\* returns ("Ok" for success) and, for success, every value it writes.
submit_message_outcome(payer, wallet) ==
    LET fee_paid == current_fee
        checks == submit_message_checks(payer, wallet)
        marketing == marketing_fee_of(current_fee, marketing_bps)
        marketing_fee == marketing[2]
        prize == prize_fee_of(current_fee, marketing_fee)
        prize_fee == prize[2]
        moved == IF marketing[1] /\ prize[1]
                 THEN fee_transfers(payer, wallet, prize_fee, marketing_fee)
                 ELSE <<FALSE, lamports, FALSE>>
        count == messages_count + 1
        timer == timer_rules(count, timer_active, deadline, now)
        next == next_fee_of(current_fee)
    IN  IF checks # "Ok" THEN [err |-> checks] ELSE
        [err |-> IF ~marketing[1] \/ ~prize[1] THEN "Panic"
                 ELSE IF ~moved[1] THEN "LedgerError"
                 ELSE IF ~next[1] THEN "Panic"
                 ELSE "Ok",
         lamports |-> moved[2],
         fee_paid |-> fee_paid,
         marketing_fee |-> marketing_fee,
         prize_fee |-> prize_fee,
         marketing_sent |-> moved[3],
         messages_count |-> count,
         timer_active |-> timer[1],
         deadline |-> timer[2],
         current_fee |-> capped_fee(next[2], fee_cap)]

\* the lamports an accepted submission moves into the vault: the prize_fee, and the
\* marketing_fee too when the stored marketing wallet is the vault itself
vault_inflow(out) ==
    IF out.marketing_sent /\ marketing_wallet = ESCROW_VAULT
    THEN as_u64(AddExact(out.prize_fee, out.marketing_fee))
    ELSE out.prize_fee

submit_message(payer, wallet) ==
    LET out == submit_message_outcome(payer, wallet)
    IN  /\ messages_count < MaxMessages
        /\ out.err = "Ok"
        /\ lamports' = out.lamports
        /\ messages_count' = out.messages_count
        /\ last_sender' = payer
        /\ timer_active' = out.timer_active
        /\ deadline' = out.deadline
        /\ current_fee' = out.current_fee
        /\ prize_fee_total' = as_u64(AddExact(prize_fee_total, out.prize_fee))
        /\ vault_inflow_total' = as_u64(AddExact(vault_inflow_total, vault_inflow(out)))
        /\ message_submitted_at' = now
        /\ UNCHANGED <<initialized, authority, base_fee, fee_cap, marketing_wallet,
                       marketing_bps, ended, now, prize_claimed>>

\* ------------------------------------------------------------------------
\* claim_prize and jigsaw_approve_payout
\* ------------------------------------------------------------------------

\* claim_prize_checks without require!(!escrow.ended) (the fault C1 would catch)
claim_prize_checks_no_ended(winner) ==
    IF ~initialized THEN "AccountNotInitialized"
    ELSE IF ~timer_active THEN "GameNotEnded"
    ELSE IF ~(now >= deadline) THEN "GameNotEnded"
    ELSE IF ~(last_sender # DEFAULT) THEN "NoWinner"
    ELSE IF ~(winner = last_sender) THEN "NotTheWinner"
    ELSE "Ok"

\* claim_prize_checks without the check that the caller is last_sender (the fault
\* C10 would catch)
claim_prize_checks_any_winner(winner) ==
    IF ~initialized THEN "AccountNotInitialized"
    ELSE IF ~timer_active THEN "GameNotEnded"
    ELSE IF ~(now >= deadline) THEN "GameNotEnded"
    ELSE IF ~(last_sender # DEFAULT) THEN "NoWinner"
    ELSE IF ended THEN "AlreadyClaimed"
    ELSE "Ok"

\* claim_prize_checks opening the claim one extension after the deadline (the
\* fault C18 would catch)
claim_prize_checks_after_grace(winner) ==
    IF ~initialized THEN "AccountNotInitialized"
    ELSE IF ~timer_active THEN "GameNotEnded"
    ELSE IF ~(now >= deadline + EXTEND_SECONDS) THEN "GameNotEnded"
    ELSE IF ~(last_sender # DEFAULT) THEN "NoWinner"
    ELSE IF ended THEN "AlreadyClaimed"
    ELSE IF ~(winner = last_sender) THEN "NotTheWinner"
    ELSE "Ok"

\* the require! checks of claim_prize, in the order the handler makes them
claim_prize_checks(winner) ==
    IF ~initialized THEN "AccountNotInitialized"
    ELSE IF ~timer_active THEN "GameNotEnded"
    ELSE IF ~(now >= deadline) THEN "GameNotEnded"
    ELSE IF ~(last_sender # DEFAULT) THEN "NoWinner"
    ELSE IF ended THEN "AlreadyClaimed"
    ELSE IF ~(winner = last_sender) THEN "NotTheWinner"
    ELSE "Ok"

\* the sweep both settlements make: the vault's whole balance to the winner, signed
\* with the vault's seeds
sweep_vault(winner) ==
    LET balance == lamports[ESCROW_VAULT]
        moved == system_transfer(lamports, ESCROW_VAULT, winner, balance)
    IN  [ok |-> moved[1], lamports |-> moved[2], amount |-> balance]

claim_prize_outcome(winner) ==
    LET checks == claim_prize_checks(winner)
        sweep == sweep_vault(winner)
    IN  IF checks # "Ok" THEN [err |-> checks] ELSE
        [err |-> IF ~sweep.ok THEN "LedgerError" ELSE "Ok",
         ended |-> TRUE,
         lamports |-> sweep.lamports,
         amount |-> sweep.amount]

claim_prize(winner) ==
    LET out == claim_prize_outcome(winner)
    IN  /\ out.err = "Ok"
        /\ ended' = out.ended
        /\ lamports' = out.lamports
        /\ prize_claimed' = Append(prize_claimed,
               [winner |-> winner, amount |-> out.amount, instruction |-> "claim_prize"])
        /\ UNCHANGED <<initialized, authority, base_fee, fee_cap, current_fee,
                       marketing_wallet, marketing_bps, messages_count, last_sender,
                       timer_active, deadline, now, prize_fee_total, vault_inflow_total,
                       message_submitted_at>>

\* jigsaw_approve_payout_checks waiting for the deadline as claim_prize does (the
\* fault C11 would catch)
jigsaw_approve_payout_checks_after_expiry(jigsaw_approver, winner) ==
    IF ~initialized THEN "AccountNotInitialized"
    ELSE IF ~(authority = jigsaw_approver) THEN "Unauthorized"
    ELSE IF ~timer_active \/ ~(now >= deadline) THEN "GameNotEnded"
    ELSE IF ended THEN "AlreadyClaimed"
    ELSE IF ~(winner = last_sender) THEN "NotTheWinner"
    ELSE IF ~(last_sender # DEFAULT) THEN "NoWinner"
    ELSE "Ok"

\* the account constraint of JigsawApprovePayout (escrow.authority ==
\* jigsaw_approver), then the require! checks of the handler in its order
jigsaw_approve_payout_checks(jigsaw_approver, winner) ==
    IF ~initialized THEN "AccountNotInitialized"
    ELSE IF ~(authority = jigsaw_approver) THEN "Unauthorized"
    ELSE IF ended THEN "AlreadyClaimed"
    ELSE IF ~(winner = last_sender) THEN "NotTheWinner"
    ELSE IF ~(last_sender # DEFAULT) THEN "NoWinner"
    ELSE "Ok"

jigsaw_approve_payout_outcome(jigsaw_approver, winner) ==
    LET checks == jigsaw_approve_payout_checks(jigsaw_approver, winner)
        sweep == sweep_vault(winner)
    IN  IF checks # "Ok" THEN [err |-> checks] ELSE
        [err |-> IF ~sweep.ok THEN "LedgerError" ELSE "Ok",
         ended |-> TRUE,
         lamports |-> sweep.lamports,
         amount |-> sweep.amount]

\* jigsaw_approve_payout clearing last_sender as it settles (the fault C16 would catch)
jigsaw_approve_payout_clears_sender(jigsaw_approver, winner) ==
    LET out == jigsaw_approve_payout_outcome(jigsaw_approver, winner)
    IN  /\ out.err = "Ok"
        /\ ended' = out.ended
        /\ lamports' = out.lamports
        /\ last_sender' = DEFAULT
        /\ prize_claimed' = Append(prize_claimed,
               [winner |-> winner, amount |-> out.amount,
                instruction |-> "jigsaw_approve_payout"])
        /\ UNCHANGED <<initialized, authority, base_fee, fee_cap, current_fee,
                       marketing_wallet, marketing_bps, messages_count,
                       timer_active, deadline, now, prize_fee_total, vault_inflow_total,
                       message_submitted_at>>

jigsaw_approve_payout(jigsaw_approver, winner) ==
    LET out == jigsaw_approve_payout_outcome(jigsaw_approver, winner)
    IN  /\ out.err = "Ok"
        /\ ended' = out.ended
        /\ lamports' = out.lamports
        /\ prize_claimed' = Append(prize_claimed,
               [winner |-> winner, amount |-> out.amount,
                instruction |-> "jigsaw_approve_payout"])
        /\ UNCHANGED <<initialized, authority, base_fee, fee_cap, current_fee,
                       marketing_wallet, marketing_bps, messages_count, last_sender,
                       timer_active, deadline, now, prize_fee_total, vault_inflow_total,
                       message_submitted_at>>

\* ------------------------------------------------------------------------
\* set_fee_params and set_marketing_params
\* ------------------------------------------------------------------------

\* the account constraint of SetFeeParams, then the handler's require!
set_fee_params_checks(signer, new_base_fee, new_fee_cap) ==
    IF ~initialized THEN "AccountNotInitialized"
    ELSE IF ~(authority = signer) THEN "Unauthorized"
    ELSE IF ~(~IsZero(new_base_fee) /\ Le(new_base_fee, new_fee_cap)) THEN "BadParams"
    ELSE "Ok"

\* clamped_fee without the clamp to fee_cap (the fault C13 would catch)
clamped_fee_no_cap(fee, new_base_fee, new_fee_cap) ==
    IF Lt(fee, new_base_fee) THEN new_base_fee ELSE fee

\* current_fee after the two clamps of set_fee_params, applied one after the other
clamped_fee(fee, new_base_fee, new_fee_cap) ==
    LET raised == IF Lt(fee, new_base_fee) THEN new_base_fee ELSE fee
    IN  IF Lt(new_fee_cap, raised) THEN new_fee_cap ELSE raised

set_fee_params(signer, new_base_fee, new_fee_cap) ==
    /\ set_fee_params_checks(signer, new_base_fee, new_fee_cap) = "Ok"
    /\ base_fee' = new_base_fee
    /\ fee_cap' = new_fee_cap
    /\ current_fee' = clamped_fee(current_fee, new_base_fee, new_fee_cap)
    /\ UNCHANGED <<initialized, authority, marketing_wallet, marketing_bps,
                   messages_count, last_sender, timer_active, deadline, ended,
                   lamports, now, history>>

\* the account constraint of SetMarketingParams, then the handler's require!
set_marketing_params_checks(signer, wallet, bps) ==
    IF ~initialized THEN "AccountNotInitialized"
    ELSE IF ~(authority = signer) THEN "Unauthorized"
    ELSE IF ~(bps <= MAX_MARKETING_BPS) THEN "BpsTooHigh"
    ELSE "Ok"

set_marketing_params(signer, wallet, bps) ==
    /\ set_marketing_params_checks(signer, wallet, bps) = "Ok"
    /\ marketing_wallet' = wallet
    /\ marketing_bps' = bps
    /\ UNCHANGED <<initialized, authority, base_fee, fee_cap, current_fee,
                   messages_count, last_sender, timer_active, deadline, ended,
                   lamports, now, history>>

\* ------------------------------------------------------------------------
\* Instructions as transactions
\* ------------------------------------------------------------------------

\* the accounts an instruction of the program writes: the Escrow record and the
\* balances of the ledger
accounts_state ==
    [authority |-> authority, base_fee |-> base_fee, fee_cap |-> fee_cap,
     current_fee |-> current_fee, marketing_wallet |-> marketing_wallet,
     marketing_bps |-> marketing_bps, messages_count |-> messages_count,
     last_sender |-> last_sender, timer_active |-> timer_active,
     deadline |-> deadline, ended |-> ended, lamports |-> lamports]

\* a ledger that keeps what a failed instruction wrote (the fault C12 would catch)
transaction_keeps_writes(result, written) == written

\* every handler returns Result<()>: the ledger commits the accounts as the handler
\* left them when it returns Ok, and discards every write, the transfers it invoked
\* included, when it returns an error or panics
transaction(result, written) == IF result = "Ok" THEN written ELSE accounts_state

\* the accounts as submit_message leaves them when it returns: nothing is written
\* before the checks pass, the transfers come next, then the Escrow fields, and
\* current_fee last
submit_message_written(payer, wallet) ==
    LET out == submit_message_outcome(payer, wallet)
        split_ok == marketing_fee_of(current_fee, marketing_bps)[1]
                    /\ prize_fee_of(current_fee,
                                    marketing_fee_of(current_fee, marketing_bps)[2])[1]
    IN  IF submit_message_checks(payer, wallet) # "Ok" THEN accounts_state
        ELSE IF out.err = "LedgerError" \/ ~split_ok
        THEN [accounts_state EXCEPT !.lamports = out.lamports]
        ELSE IF out.err = "Panic"
        THEN [accounts_state EXCEPT !.lamports = out.lamports,
                                    !.messages_count = out.messages_count,
                                    !.last_sender = payer,
                                    !.timer_active = out.timer_active,
                                    !.deadline = out.deadline]
        ELSE [accounts_state EXCEPT !.lamports = out.lamports,
                                    !.messages_count = out.messages_count,
                                    !.last_sender = payer,
                                    !.timer_active = out.timer_active,
                                    !.deadline = out.deadline,
                                    !.current_fee = out.current_fee]

submit_message_after(payer, wallet) ==
    transaction(submit_message_outcome(payer, wallet).err,
                submit_message_written(payer, wallet))

\* the accounts as claim_prize leaves them when it returns: ended is set before the
\* sweep is invoked
claim_prize_written(winner) ==
    LET out == claim_prize_outcome(winner)
    IN  IF claim_prize_checks(winner) # "Ok" THEN accounts_state
        ELSE [accounts_state EXCEPT !.ended = out.ended, !.lamports = out.lamports]

claim_prize_after(winner) ==
    transaction(claim_prize_outcome(winner).err, claim_prize_written(winner))

\* the accounts as jigsaw_approve_payout leaves them when it returns
jigsaw_approve_payout_written(jigsaw_approver, winner) ==
    LET out == jigsaw_approve_payout_outcome(jigsaw_approver, winner)
    IN  IF jigsaw_approve_payout_checks(jigsaw_approver, winner) # "Ok" THEN accounts_state
        ELSE [accounts_state EXCEPT !.ended = out.ended, !.lamports = out.lamports]

jigsaw_approve_payout_after(jigsaw_approver, winner) ==
    transaction(jigsaw_approve_payout_outcome(jigsaw_approver, winner).err,
                jigsaw_approve_payout_written(jigsaw_approver, winner))

\* the accounts as set_fee_params leaves them when it returns
set_fee_params_written(signer, new_base_fee, new_fee_cap) ==
    IF set_fee_params_checks(signer, new_base_fee, new_fee_cap) # "Ok" THEN accounts_state
    ELSE [accounts_state EXCEPT
              !.base_fee = new_base_fee,
              !.fee_cap = new_fee_cap,
              !.current_fee = clamped_fee(current_fee, new_base_fee, new_fee_cap)]

set_fee_params_after(signer, new_base_fee, new_fee_cap) ==
    transaction(set_fee_params_checks(signer, new_base_fee, new_fee_cap),
                set_fee_params_written(signer, new_base_fee, new_fee_cap))

\* the accounts as set_marketing_params leaves them when it returns
set_marketing_params_written(signer, wallet, bps) ==
    IF set_marketing_params_checks(signer, wallet, bps) # "Ok" THEN accounts_state
    ELSE [accounts_state EXCEPT !.marketing_wallet = wallet, !.marketing_bps = bps]

set_marketing_params_after(signer, wallet, bps) ==
    transaction(set_marketing_params_checks(signer, wallet, bps),
                set_marketing_params_written(signer, wallet, bps))

\* ------------------------------------------------------------------------
\* The clock, and the specification
\* ------------------------------------------------------------------------

\* the ledger's clock moves forward between transactions
advance_clock(step) ==
    /\ now + step <= MaxNow
    /\ now' = now + step
    /\ UNCHANGED <<initialized, escrow_fields, lamports, history>>

Init ==
    /\ initialized = FALSE
    /\ authority = DEFAULT
    /\ base_fee = U64(0)
    /\ fee_cap = U64(0)
    /\ current_fee = U64(0)
    /\ marketing_wallet = DEFAULT
    /\ marketing_bps = 0
    /\ messages_count = 0
    /\ last_sender = DEFAULT
    /\ timer_active = FALSE
    /\ deadline = 0
    /\ ended = FALSE
    /\ lamports = InitialLamports
    /\ now = 0
    /\ prize_claimed = <<>>
    /\ prize_fee_total = U64(0)
    /\ vault_inflow_total = U64(0)
    /\ message_submitted_at = 0

Initialize ==
    \E signer \in {"admin"}, args \in InitializeArgs :
        initialize(signer, args[4], args[1], args[2], args[3])

SubmitMessage == \E payer \in Payers, wallet \in Wallets : submit_message(payer, wallet)

ClaimPrize == \E winner \in Signers : claim_prize(winner)

JigsawApprovePayout ==
    \E approver \in Signers, winner \in Signers \cup {DEFAULT} :
        jigsaw_approve_payout(approver, winner)

SetFeeParams == \E signer \in Signers, args \in FeeParamArgs : set_fee_params(signer, args[1], args[2])

SetMarketingParams ==
    \E signer \in Signers, args \in MarketingParamArgs :
        set_marketing_params(signer, args[1], args[2])

AdvanceClock == \E step \in ClockSteps : advance_clock(step)

Next ==
    \/ Initialize
    \/ SubmitMessage
    \/ ClaimPrize
    \/ JigsawApprovePayout
    \/ SetFeeParams
    \/ SetMarketingParams
    \/ AdvanceClock

Spec == Init /\ [][Next]_vars

\* The same program on the ledger of WideLamports, initialized over the whole
\* width of a u64.
InitWide ==
    /\ initialized = FALSE
    /\ authority = DEFAULT
    /\ base_fee = U64(0)
    /\ fee_cap = U64(0)
    /\ current_fee = U64(0)
    /\ marketing_wallet = DEFAULT
    /\ marketing_bps = 0
    /\ messages_count = 0
    /\ last_sender = DEFAULT
    /\ timer_active = FALSE
    /\ deadline = 0
    /\ ended = FALSE
    /\ lamports = WideLamports
    /\ now = 0
    /\ prize_claimed = <<>>
    /\ prize_fee_total = U64(0)
    /\ vault_inflow_total = U64(0)
    /\ message_submitted_at = 0

InitializeWide ==
    \E signer \in {"admin"}, args \in WideInitializeArgs :
        initialize(signer, args[4], args[1], args[2], args[3])

NextWide ==
    \/ InitializeWide
    \/ SubmitMessage
    \/ ClaimPrize
    \/ JigsawApprovePayout
    \/ SetFeeParams
    \/ SetMarketingParams
    \/ AdvanceClock

SpecWide == InitWide /\ [][NextWide]_vars

\* The program with a winner who does claim: a claim_prize that stays possible is
\* eventually submitted.  The escrow is initialized with the valid arguments of
\* InitializeArgs (base_fee <= fee_cap, marketing_bps <= 2500, a marketing wallet).
InitializeFair ==
    \E signer \in {"admin"}, args \in {a \in InitializeArgs : a[3] <= MAX_MARKETING_BPS} :
        initialize(signer, args[4], args[1], args[2], args[3])

NextFair ==
    \/ InitializeFair
    \/ SubmitMessage
    \/ ClaimPrize
    \/ JigsawApprovePayout
    \/ SetFeeParams
    \/ SetMarketingParams
    \/ AdvanceClock

FairSpec == Init /\ [][NextFair]_vars /\ WF_vars(ClaimPrize)

\* ------------------------------------------------------------------------
\* Properties
\* ------------------------------------------------------------------------

\* the lamports paid out by the settlements so far
RECURSIVE PaidOut(_)
PaidOut(events) ==
    IF events = <<>> THEN U64(0)
    ELSE as_u64(AddExact(events[1].amount, PaidOut(Tail(events))))

\* the rent-exempt reserve initialize puts into the vault
VaultReserve == Rent_minimum_balance(0)

\* a step that emits PrizeClaimed from claim_prize
ClaimPrizeSucceeds ==
    /\ prize_claimed' # prize_claimed
    /\ prize_claimed'[Len(prize_claimed')].instruction = "claim_prize"

\* C1: at most one settlement call (claim_prize or jigsaw_approve_payout) ever
\* succeeds: the program emits PrizeClaimed, and sweeps the vault, at most once.
C1_AtMostOneSettlement == Len(prize_claimed) <= 1

\* a settlement has succeeded and, but for `ended`, claim_prize by last_sender
\* would pass every check again
C1_Witness ==
    /\ Len(prize_claimed) = 1
    /\ ended /\ timer_active /\ now >= deadline /\ last_sender # DEFAULT
    /\ claim_prize_outcome(last_sender).err = "AlreadyClaimed"

\* C2 (as claimed): once a settlement has succeeded, every later settlement attempt,
\* claim_prize or jigsaw_approve_payout, by any caller and in any timer state, fails
\* with AlreadyClaimed.
C2_EverySettlementAlreadyClaimed ==
    ended =>
        /\ \A winner \in Signers : claim_prize_outcome(winner).err = "AlreadyClaimed"
        /\ \A approver \in Signers, winner \in Signers :
               jigsaw_approve_payout_outcome(approver, winner).err = "AlreadyClaimed"

\* C3 (as claimed): after every operation, initialize with any arguments included,
\* base_fee <= current_fee <= fee_cap.
C3_FeeWithinBounds ==
    initialized => Le(base_fee, current_fee) /\ Le(current_fee, fee_cap)

\* C4 (as claimed): an accepted submit_message never lowers current_fee and leaves
\* it at most fee_cap.
C4_FeeNonDecreasing ==
    [][messages_count' # messages_count =>
          Le(current_fee, current_fee') /\ Le(current_fee', fee_cap')]_vars

\* C5 (as claimed): once ended is true it stays true and no operation changes any
\* Escrow field.
C5_EndedFreezesEscrow ==
    [][ended => ended' /\ UNCHANGED escrow_fields]_vars

\* C6 (as claimed): marketing_bps <= 2500 in every reachable state.
C6_MarketingBpsBounded == marketing_bps <= 2500

\* C7 (as claimed): the vault balance equals the sum of the prize_fee amounts of
\* the accepted submissions minus the settlement payout.
C7_VaultIsPrizeFeesLessPayout ==
    initialized =>
        AddExact(lamports[ESCROW_VAULT], PaidOut(prize_claimed))
            = Extend(prize_fee_total, U64Limbs + 1)

\* C7 (amended): the vault balance equals the rent-exempt reserve initialize
\* deposits, plus the lamports the accepted submissions moved into the vault (each
\* prize_fee, and the marketing_fee too while marketing_wallet is the vault), minus
\* the settlement payout.
C7_VaultConservation ==
    initialized =>
        AddExact(lamports[ESCROW_VAULT], PaidOut(prize_claimed))
            = AddExact(VaultReserve, vault_inflow_total)

\* submissions were accepted, some of them while the vault was the marketing
\* wallet, and the vault has been swept
C7_Witness ==
    /\ initialized /\ messages_count >= 2
    /\ Lt(prize_fee_total, vault_inflow_total)
    /\ Len(prize_claimed) = 1
    /\ IsZero(lamports[ESCROW_VAULT])

\* C8 (as claimed): a submit_message that arrives while timer_active and
\* now > deadline is rejected with TimerExpired.
C8_ExpiredIsTimerExpired ==
    (initialized /\ timer_active /\ now > deadline) =>
        \A payer \in Payers :
            submit_message_outcome(payer, marketing_wallet).err = "TimerExpired"

\* C8 (amended): a submit_message that arrives while timer_active and now > deadline
\* is never accepted, so it changes nothing; it is rejected with TimerExpired while
\* ended is false and with GameEnded once ended is true.
C8_ExpiredIsRejected ==
    (initialized /\ timer_active /\ now > deadline) =>
        /\ \A payer \in Payers :
               submit_message_outcome(payer, marketing_wallet).err
                   = IF ended THEN "GameEnded" ELSE "TimerExpired"
        /\ ~ENABLED SubmitMessage

\* the timer has expired, the game is live, and alice could pay the fee: her
\* submission is rejected with TimerExpired
C8_Witness ==
    /\ initialized /\ timer_active /\ now > deadline /\ ~ended
    /\ messages_count < MaxMessages
    /\ Le(current_fee, lamports["alice"])
    /\ submit_message_outcome("alice", marketing_wallet).err = "TimerExpired"

\* C9: the timer is inactive after each of the first 9 accepted submissions; the
\* submission that brings messages_count from 9 to 10 arms it with
\* deadline = now + 3600; every later accepted submission is on time
\* (now <= deadline) and sets deadline to now + 3600.
C9_TimerArming ==
    [][messages_count' # messages_count =>
          /\ messages_count' = messages_count + 1
          /\ now' = now
          /\ (messages_count' <= 9 => ~timer_active')
          /\ (messages_count' = 10 =>
                ~timer_active /\ timer_active' /\ deadline' = now + 3600)
          /\ (messages_count' > 10 =>
                timer_active /\ now <= deadline /\ timer_active'
                /\ deadline' = now + 3600)]_vars

\* the 11th submission arrived on the deadline set by the 10th and extended it
C9_Witness ==
    /\ messages_count = 11 /\ timer_active
    /\ now = 3600 /\ deadline = 7200

\* C10: claim_prize succeeds only if timer_active, now >= deadline, last_sender is
\* set, ended is false and the caller is last_sender; it then sets ended and moves
\* the vault's whole balance to the caller, leaving the vault at 0.
C10_ClaimPrize ==
    [][ClaimPrizeSucceeds =>
          LET event == prize_claimed'[Len(prize_claimed')]
          IN  /\ timer_active /\ now >= deadline
              /\ last_sender # DEFAULT
              /\ ~ended
              /\ event.winner = last_sender
              /\ ended'
              /\ event.amount = lamports[ESCROW_VAULT]
              /\ IsZero(lamports'[ESCROW_VAULT])
              /\ Extend(lamports'[event.winner], U64Limbs + 1)
                     = AddExact(lamports[event.winner], lamports[ESCROW_VAULT])
              /\ \A a \in Accounts \ {event.winner, ESCROW_VAULT} :
                     lamports'[a] = lamports[a]]_vars

\* bob, the last sender, has claimed the prize after the deadline: the vault is
\* empty and he holds it
C10_Witness ==
    /\ Len(prize_claimed) = 1
    /\ prize_claimed[1].instruction = "claim_prize"
    /\ prize_claimed[1].winner = "bob"
    /\ ended /\ IsZero(lamports[ESCROW_VAULT])
    /\ Lt(VaultReserve, prize_claimed[1].amount)
    /\ Lt(InitialLamports["bob"], lamports["bob"])

\* a step that emits PrizeClaimed from jigsaw_approve_payout
ApprovePayoutSucceeds ==
    /\ prize_claimed' # prize_claimed
    /\ prize_claimed'[Len(prize_claimed')].instruction = "jigsaw_approve_payout"

\* C11: jigsaw_approve_payout succeeds exactly when ended is false, the caller is
\* escrow.authority, last_sender is set and the named winner is last_sender,
\* whatever timer_active, deadline and the clock are; a caller other than the
\* authority is rejected with Unauthorized.
C11_ApprovePayout ==
    /\ [](initialized =>
            \A approver \in Signers, winner \in Signers \cup {DEFAULT} :
                LET err == jigsaw_approve_payout_outcome(approver, winner).err
                IN  /\ (err = "Ok") <=>
                           /\ ~ended
                           /\ approver = authority
                           /\ last_sender # DEFAULT
                           /\ winner = last_sender
                    /\ (approver # authority => err = "Unauthorized"))
    /\ [][ApprovePayoutSucceeds =>
              /\ ~ended /\ ended'
              /\ last_sender # DEFAULT
              /\ prize_claimed'[Len(prize_claimed')].winner = last_sender
              /\ IsZero(lamports'[ESCROW_VAULT])]_vars

\* the authority settled while the timer was armed and the deadline still ahead
C11_Witness ==
    /\ Len(prize_claimed) = 1
    /\ prize_claimed[1].instruction = "jigsaw_approve_payout"
    /\ prize_claimed[1].winner = last_sender
    /\ ended /\ timer_active /\ now < deadline

\* the accounts after each call the model tries that returns an error
RejectedCallsAfter ==
    {submit_message_after(payer, wallet) :
        <<payer, wallet>> \in {c \in Payers \X Wallets :
            submit_message_outcome(c[1], c[2]).err # "Ok"}}
    \cup {claim_prize_after(winner) :
        winner \in {w \in Signers : claim_prize_outcome(w).err # "Ok"}}
    \cup {jigsaw_approve_payout_after(c[1], c[2]) :
        c \in {d \in Signers \X (Signers \cup {DEFAULT}) :
            jigsaw_approve_payout_outcome(d[1], d[2]).err # "Ok"}}
    \cup {set_fee_params_after(c[1], c[2][1], c[2][2]) :
        c \in {d \in Signers \X FeeParamArgs :
            set_fee_params_checks(d[1], d[2][1], d[2][2]) # "Ok"}}
    \cup {set_marketing_params_after(c[1], c[2][1], c[2][2]) :
        c \in {d \in Signers \X MarketingParamArgs :
            set_marketing_params_checks(d[1], d[2][1], d[2][2]) # "Ok"}}

\* the accounts after each call the model tries that returns Ok
AcceptedCallsAfter ==
    {submit_message_after(c[1], c[2]) :
        c \in {d \in Payers \X Wallets : submit_message_outcome(d[1], d[2]).err = "Ok"}}
    \cup {claim_prize_after(winner) :
        winner \in {w \in Signers : claim_prize_outcome(w).err = "Ok"}}
    \cup {jigsaw_approve_payout_after(c[1], c[2]) :
        c \in {d \in Signers \X (Signers \cup {DEFAULT}) :
            jigsaw_approve_payout_outcome(d[1], d[2]).err = "Ok"}}
    \cup {set_fee_params_after(c[1], c[2][1], c[2][2]) :
        c \in {d \in Signers \X FeeParamArgs :
            set_fee_params_checks(d[1], d[2][1], d[2][2]) = "Ok"}}
    \cup {set_marketing_params_after(c[1], c[2][1], c[2][2]) :
        c \in {d \in Signers \X MarketingParamArgs :
            set_marketing_params_checks(d[1], d[2][1], d[2][2]) = "Ok"}}

C13_SetFeeParams ==
    /\ [](initialized =>
            \A signer \in Signers, args \in FeeParamArgs :
                set_fee_params_checks(signer, args[1], args[2])
                    = IF signer # authority THEN "Unauthorized"
                      ELSE IF IsZero(args[1]) \/ Lt(args[2], args[1]) THEN "BadParams"
                      ELSE "Ok")
    /\ [][\A signer \in Signers, args \in FeeParamArgs :
              set_fee_params(signer, args[1], args[2]) =>
                  /\ signer = authority
                  /\ ~IsZero(args[1]) /\ Le(args[1], args[2])
                  /\ base_fee' = args[1]
                  /\ fee_cap' = args[2]
                  /\ current_fee' = IF Lt(current_fee, args[1]) THEN args[1]
                                    ELSE IF Lt(args[2], current_fee) THEN args[2]
                                    ELSE current_fee
                  /\ Le(base_fee', current_fee') /\ Le(current_fee', fee_cap')
                  /\ UNCHANGED <<authority, marketing_wallet, marketing_bps,
                                 messages_count, last_sender, timer_active, deadline,
                                 ended, lamports>>]_vars

\* an escrow initialized with current_fee = 2000 above the new fee_cap = 1010: the
\* accepted set_fee_params brought current_fee down to the cap
C13_Witness ==
    /\ initialized /\ marketing_bps = 3000 /\ messages_count = 0
    /\ base_fee = U64(1010) /\ fee_cap = U64(1010) /\ current_fee = U64(1010)

\* a step that is an accepted submit_message
SubmitMessageSucceeds == messages_count' # messages_count

\* C14: for every accepted submit_message with current_fee < 2^63 and
\* marketing_bps <= 2500, marketing_fee is floor(current_fee * marketing_bps / 10000)
\* on the exact product, prize_fee is current_fee - marketing_fee, the two add up
\* to current_fee exactly, and these are the amounts the vault and the marketing
\* wallet receive.
C14_FeeSplit ==
    [][(SubmitMessageSucceeds /\ Le(current_fee, FEE_RANGE_MAX) /\ marketing_bps <= 2500) =>
          \A out \in {submit_message_outcome(last_sender', marketing_wallet)} :
          \A product \in {MulExact(current_fee, marketing_bps)} :
          \A floored \in {MulExact(out.marketing_fee, 10000)} :
              /\ Le(floored, product)
              /\ Lt(SubExact(product, floored), Extend(U64(10000), Len(product)))
              /\ Le(out.marketing_fee, current_fee)
              /\ out.prize_fee = SubExact(current_fee, out.marketing_fee)
              /\ AddExact(out.marketing_fee, out.prize_fee)
                     = Extend(current_fee, U64Limbs + 1)
              /\ (marketing_wallet # ESCROW_VAULT =>
                     AddExact(lamports[ESCROW_VAULT], out.prize_fee)
                         = Extend(lamports'[ESCROW_VAULT], U64Limbs + 1))
              /\ (marketing_wallet = "mkt" =>
                     AddExact(lamports["mkt"], out.marketing_fee)
                         = Extend(lamports'["mkt"], U64Limbs + 1))]_vars

\* one submission at the largest fee of the range, 2^63 - 1 at 2500 bps, was
\* accepted: the marketing wallet and the vault hold the whole fee between them
C14_Witness ==
    /\ messages_count = 1 /\ base_fee = FEE_RANGE_MAX /\ marketing_bps = 2500
    /\ ~IsZero(lamports["mkt"])
    /\ AddExact(prize_fee_total, lamports["mkt"]) = Extend(FEE_RANGE_MAX, U64Limbs + 1)

\* floor(fee * 10078 / 10000) on the exact product, not narrowed
ExactEscalation(fee) == DivExact(MulExact(fee, FEE_MULTIPLIER), BPS_DENOMINATOR)

\* C15 (as claimed): every accepted submit_message sets current_fee to
\* min(fee_cap, floor(current_fee * 10078 / 10000)) computed on the exact product,
\* and is never accepted when the escalated value does not fit in 64 bits.
C15_EscalationExact ==
    [][SubmitMessageSucceeds =>
          \A exact \in {ExactEscalation(current_fee)} :
              /\ Fits(exact, U64_BITS)
              /\ current_fee' = IF Lt(Extend(fee_cap, Len(exact)), exact)
                                THEN fee_cap
                                ELSE as_u64(exact)]_vars

\* C16: last_sender changes only in an accepted submit_message, which sets it to
\* the payer of that call (the account the fee was taken from); initialize sets it
\* to the empty identity; set_fee_params, set_marketing_params, claim_prize,
\* jigsaw_approve_payout and every rejected call leave it unchanged.
C16_LastSenderFrame ==
    /\ [](initialized =>
            \A after \in RejectedCallsAfter : after.last_sender = last_sender)
    /\ [][/\ (last_sender' # last_sender => SubmitMessageSucceeds)
           /\ (SubmitMessageSucceeds =>
                  /\ last_sender' \in Payers
                  /\ Lt(lamports'[last_sender'], lamports[last_sender'])
                  /\ \A a \in Signers \ {last_sender'} : lamports'[a] = lamports[a])
           /\ (~initialized /\ initialized' => last_sender' = DEFAULT)
           /\ (initialized /\ ~SubmitMessageSucceeds => last_sender' = last_sender)]_vars

\* bob submitted last; since then the authority has set the fee bounds and the
\* marketing wallet and settled, and last_sender is still bob
C16_Witness ==
    /\ last_sender = "bob" /\ messages_count >= 2
    /\ ended /\ prize_claimed[1].instruction = "jigsaw_approve_payout"
    /\ marketing_wallet = ESCROW_VAULT /\ base_fee = U64(1010)

\* C17 (as claimed): the claim window and the submission window never overlap: in
\* every reachable state where claim_prize by last_sender would succeed, a
\* submit_message at the same timestamp is rejected with TimerExpired.
C17_WindowsDisjoint ==
    (initialized /\ claim_prize_outcome(last_sender).err = "Ok") =>
        \A payer \in Payers :
            submit_message_outcome(payer, marketing_wallet).err = "TimerExpired"

\* the timer is armed and the deadline has passed
Expired == timer_active /\ now > deadline

\* C18: once timer_active is true and now > deadline, no submit_message is accepted
\* again, deadline and last_sender never change and the timer stays expired, so
\* claim_prize by last_sender is enabled until a settlement succeeds; with weak
\* fairness on claim_prize the escrow eventually reaches ended.
C18_ExpiredLeadsToEnded ==
    /\ [][Expired =>
              /\ ~SubmitMessageSucceeds
              /\ deadline' = deadline
              /\ last_sender' = last_sender
              /\ Expired']_vars
    /\ []((Expired /\ ~ended) => ENABLED claim_prize(last_sender))
    /\ (Expired ~> ended)

\* alice, the last sender, claimed after the deadline had passed
C18_Witness ==
    /\ Expired /\ ended
    /\ Len(prize_claimed) = 1
    /\ prize_claimed[1].instruction = "claim_prize"
    /\ prize_claimed[1].winner = "alice"

\* C19: every accepted submit_message made while timer_active is true arrives on
\* time and resets deadline to now + 3600 (the branch of the timer rules that leaves
\* an expired timer alone is never taken by an accepted submission); hence, whenever
\* timer_active is true, deadline is the timestamp of the most recent accepted
\* submission plus 3600.
C19_DeadlineFollowsLastSubmission ==
    /\ []((initialized /\ timer_active) => deadline = message_submitted_at + 3600)
    /\ [][(SubmitMessageSucceeds /\ timer_active) =>
              /\ now <= deadline
              /\ timer_rules(messages_count + 1, timer_active, deadline, now)[4]
              /\ deadline' = now + 3600]_vars

\* the timer was armed at 0 and extended by the submission of 3600; the game has
\* been settled since and the deadline still stands at 7200
C19_Witness ==
    /\ timer_active /\ ended
    /\ message_submitted_at = 3600 /\ deadline = 7200

\* C20 (as claimed): for every accepted submit_message, whatever marketing_wallet
\* and marketing_bps are stored, the lamports debited from the payer equal the
\* fee_paid reported in MessageSubmitted, the current_fee before the escalation.
C20_PayerDebitedFeePaid ==
    [][SubmitMessageSucceeds =>
          \A out \in {submit_message_outcome(last_sender', marketing_wallet)} :
              /\ out.fee_paid = current_fee
              /\ AddExact(lamports'[last_sender'], out.fee_paid)
                     = Extend(lamports[last_sender'], U64Limbs + 1)]_vars

\* C21: in every reachable state timer_active implies messages_count >= 10 and a
\* last_sender other than Pubkey::default(); no step takes timer_active from true
\* back to false; hence no claim_prize, whoever the winner passed, is rejected with
\* NoWinner.
C21_TimerActiveHasWinner ==
    /\ [](timer_active => (messages_count >= START_AFTER /\ last_sender # DEFAULT))
    /\ [][timer_active => timer_active']_vars
    /\ [](\A winner \in Signers \cup {DEFAULT} : claim_prize_checks(winner) # "NoWinner")

\* the timer was armed by bob's tenth submission and its deadline has passed
\* unsettled: a claim_prize now passes both timer checks and reaches the check of
\* last_sender, which lets the last sender through and stops everybody else at
\* NotTheWinner
C21_Witness ==
    /\ timer_active /\ ~ended /\ now >= deadline
    /\ messages_count = START_AFTER /\ last_sender = "bob"
    /\ claim_prize_checks("bob") = "Ok"
    /\ claim_prize_checks("alice") = "NotTheWinner"

====
